---- MODULE Spec2Model ----
(***************************************************************************)
(* A model of run.py, the watched-folder uploader: the per-file            *)
(* configuration resolution (ConfigManager), the file lifecycle driven by  *)
(* renames (FileManager, VideoProcessor.process_video, main) and the       *)
(* manifest-driven playlist reconciliation                                 *)
(* (VideoProcessor._update_playlist_videos).                               *)
(*                                                                         *)
(* Python strings are sequences of one-character strings, so that          *)
(* concatenation, slicing, substring tests, str.format, os.path.splitext   *)
(* and int() are computed as the code computes them.                       *)
(***************************************************************************)
EXTENDS Integers, Sequences, FiniteSets, TLC

VARIABLES
    \* ConfigManager under test
    filename,        \* the filename handed to get_group_config
    group_settings,  \* config['group_settings'], in declaration order
    resolved,        \* what get_group_config returned or raised
    \* playlist reconciliation under test
    content,         \* the manifest, a sequence of segments
    playlist,        \* the platform's playlist: video ids in order
    video_title,     \* the platform's title of every video
    log_file,        \* the group's log file: the blocks appended so far
    v2_file,         \* the _v2 sibling of the log file, or NoFile
    runs,            \* what each reconciliation run so far did
    \* file lifecycle
    disk,            \* the files on disk: path -> [id, mtime]
    now,             \* time.time()
    pc,              \* where main() stands
    queue,           \* the VideoFiles of this pass still to be processed
    passes,          \* the scans main() has made
    last,            \* what the latest process_video call did
    uploaded,        \* the files whose upload returned a video id, in order
    posix            \* whether Path.rename replaces an existing target

vars == <<filename, group_settings, resolved,
          content, playlist, video_title, log_file, v2_file, runs,
          disk, now, pc, queue, passes, last, uploaded, posix>>

config_vars == <<filename, group_settings, resolved>>
reconcile_vars == <<content, playlist, video_title, log_file, v2_file, runs>>
pipeline_vars == <<disk, now, pc, queue, passes, last, uploaded, posix>>

----------------------------------------------------------------------------
(* Python strings *)

\* s[i:] of Python, i counted from 0
DropFirst(s, n) == SubSeq(s, n + 1, Len(s))

\* s[:n] of Python
TakeFirst(s, n) == SubSeq(s, 1, IF n < Len(s) THEN n ELSE Len(s))

\* `sub in s` of Python
Contains(s, sub) ==
    \E i \in 0..(Len(s) - Len(sub)) : SubSeq(s, i + 1, i + Len(sub)) = sub

\* s.startswith(p)
StartsWith(s, p) == Len(p) <= Len(s) /\ SubSeq(s, 1, Len(p)) = p

\* s.endswith(p)
EndsWith(s, p) ==
    Len(p) <= Len(s) /\ SubSeq(s, Len(s) - Len(p) + 1, Len(s)) = p

\* the flattening of a sequence of strings
RECURSIVE Join(_)
Join(parts) ==
    IF parts = <<>> THEN <<>> ELSE Head(parts) \o Join(Tail(parts))

\* the lexicographic order of Python's str (and Path) comparison, on the
\* characters the model uses
CharOrder == <<"-", ".", "0", "1", "2", "3", "4", "5", "6", "7", "8", "9",
               "_", "a", "b", "c", "d", "e", "g", "i", "m", "o", "p", "r",
               "s", "t", "u", "v", "x", "y">>

CharRank(c) == CHOOSE i \in 1..Len(CharOrder) : CharOrder[i] = c

RECURSIVE StrLess(_, _)
StrLess(a, b) ==
    IF b = <<>> THEN FALSE
    ELSE IF a = <<>> THEN TRUE
    ELSE IF Head(a) = Head(b) THEN StrLess(Tail(a), Tail(b))
    ELSE CharRank(Head(a)) < CharRank(Head(b))

----------------------------------------------------------------------------
(* Python values, dicts and exceptions *)

\* a str value and a value of any other type (bool, dict, None)
Str(s) == [str |-> s]
Obj(o) == [obj |-> o]

\* isinstance(value, str)
IsStr(v) == "str" \in DOMAIN v

\* A dict is the sequence of its <<key, value>> items in insertion order.
Keys(d) == {d[i][1] : i \in 1..Len(d)}

Has(d, k) == k \in Keys(d)

Get(d, k) == d[CHOOSE i \in 1..Len(d) : d[i][1] = k][2]

\* d[k] = v: in place when the key exists, appended otherwise
Put(d, k, v) ==
    IF Has(d, k)
    THEN [i \in 1..Len(d) |-> IF d[i][1] = k THEN <<k, v>> ELSE d[i]]
    ELSE Append(d, <<k, v>>)

\* d.update(e)
RECURSIVE Update(_, _)
Update(d, e) ==
    IF e = <<>> THEN d
    ELSE Update(Put(d, Head(e)[1], Head(e)[2]), Tail(e))

\* the outcome of a call: the value it returned or the exception it raised
Returned(v) == [exc |-> "", val |-> v]
Raised(e) == [exc |-> e, val |-> <<>>]

----------------------------------------------------------------------------
(* ConfigManager *)

Digits == {"0", "1", "2", "3", "4", "5", "6", "7", "8", "9"}

\* the first brace of s at or after position i, 0 when there is none
FirstBrace(s, i) ==
    LET js == {j \in i..Len(s) : s[j] \in {"{", "}"}}
    IN  IF js = {} THEN 0 ELSE CHOOSE j \in js : \A k \in js : j <= k

\* template.format(**kwargs), from position i of the template with `out`
\* rendered so far: literal text is copied, a doubled brace is one brace, a
\* single "}" or an unclosed "{" is a ValueError, a field named by a keyword
\* argument is replaced by its value, a field with no name or a number is an
\* IndexError (there are no positional arguments), any other field name a
\* KeyError. Field names with ".", "[", "!" or ":" are not drawn by the
\* model.
RECURSIVE format_from(_, _, _, _)
format_from(value, i, kwargs, out) ==
    IF i > Len(value) THEN Returned(out)
    ELSE IF value[i] \notin {"{", "}"}
    THEN format_from(value, i + 1, kwargs, Append(out, value[i]))
    ELSE IF i < Len(value) /\ value[i + 1] = value[i]
    THEN format_from(value, i + 2, kwargs, Append(out, value[i]))
    ELSE IF value[i] = "}" \/ i = Len(value) THEN Raised("ValueError")
    ELSE LET j == FirstBrace(value, i + 1)
         IN  IF j = 0 \/ value[j] = "{" THEN Raised("ValueError")
             ELSE LET name == SubSeq(value, i + 1, j - 1)
                  IN  IF \A k \in 1..Len(name) : name[k] \in Digits
                      THEN Raised("IndexError")
                      ELSE IF name \in DOMAIN kwargs
                      THEN format_from(value, j + 1, kwargs, out \o kwargs[name])
                      ELSE Raised("KeyError")

\* value.format(code=code)
format(value, code) ==
    format_from(value, 1, (<<"c", "o", "d", "e">> :> code), <<>>)

\* one item of the loop of _process_group_config: a str value is
\* formatted, left verbatim on KeyError, and any other exception of
\* str.format escapes; a value of another type passes through
process_value(value, code) ==
    IF IsStr(value)
    THEN LET r == format(value.str, code)
         IN  IF r.exc = "" THEN Returned(Str(r.val))
             ELSE IF r.exc = "KeyError" THEN Returned(value)
             ELSE Raised(r.exc)
    ELSE Returned(value)

RECURSIVE process_items(_, _, _)
process_items(items, code, processed_config) ==
    IF items = <<>> THEN Returned(Put(processed_config, "code", Str(code)))
    ELSE LET r == process_value(Head(items)[2], code)
         IN  IF r.exc # "" THEN r
             ELSE process_items(Tail(items), code,
                                Put(processed_config, Head(items)[1], r.val))

_process_group_config(group_config, code) ==
    process_items(group_config, code, <<>>)

\* group_config.get('regex', '')
regex_of(group_config) ==
    IF Has(group_config, "regex") THEN Get(group_config, "regex").str
    ELSE <<>>

\* group_loop without its break: every matching entry is merged
RECURSIVE group_loop_no_break(_, _, _, _)
group_loop_no_break(settings, i, name, base_config) ==
    IF i > Len(settings) THEN Returned(base_config)
    ELSE IF Contains(name, regex_of(settings[i].config))
    THEN LET r == _process_group_config(settings[i].config, settings[i].code)
         IN  IF r.exc # "" THEN r
             ELSE group_loop_no_break(settings, i + 1, name,
                                      Update(base_config, r.val))
    ELSE group_loop_no_break(settings, i + 1, name, base_config)

\* the loop of get_group_config over group_settings.items(), from entry i:
\* the first entry whose regex is a substring of the filename is processed
\* and merged over the base configuration, and the loop breaks
RECURSIVE group_loop(_, _, _, _)
group_loop(settings, i, name, base_config) ==
    IF i > Len(settings) THEN Returned(base_config)
    ELSE IF Contains(name, regex_of(settings[i].config))
    THEN LET r == _process_group_config(settings[i].config, settings[i].code)
         IN  IF r.exc # "" THEN r
             ELSE Returned(Update(base_config, r.val))
    ELSE group_loop(settings, i + 1, name, base_config)

get_group_config(config, settings, name) ==
    group_loop(settings, 1, name, config)

----------------------------------------------------------------------------
(* The configuration the model runs with: config.json as the spec's       *)
(* scenarios give it.                                                      *)

prefix == <<"r", "_">>
uploading_prefix == <<"u", "_">>
done_prefix == <<"d", "_">>

\* "{original_name}_{video_id}"
output_filename_template ==
    <<"{", "o", "r", "i", "g", "i", "n", "a", "l", "_", "n", "a", "m", "e",
      "}", "_", "{", "v", "i", "d", "e", "o", "_", "i", "d", "}">>

upload_folder == <<"i", "n">>

\* config.json without its group_settings
BaseConfig ==
    << <<"upload_folder", Str(upload_folder)>>,
       <<"prefix", Str(prefix)>>,
       <<"status_prefix",
         Obj([uploading |-> uploading_prefix, done |-> done_prefix])>>,
       <<"output_filename_template", Str(output_filename_template)>>,
       <<"privacy_status", Str(<<"p">>)>> >>

----------------------------------------------------------------------------
(* ConfigManager under test: get_group_config on drawn tables *)

\* the entries of a group table and the parts of a template string
MaxGroups == 2
MaxParts == 4

NotCalled == [exc |-> "not called", val |-> <<>>]

GroupCodes == << <<"p", "1">>, <<"p", "2">>, <<"p", "3">> >>

\* the names get_group_config is asked about (original names)
FileNames == { <<"a", ".", "m", "p", "4">>,
               <<"a", "b", ".", "m", "p", "4">>,
               <<"b", "1", ".", "m", "d">> }

\* an optional item of a dict
OptItem(k, vals) == {<<>>} \cup {<< <<k, v>> >> : v \in vals}

Patterns == {<<>>, <<"a">>, <<"b">>}

SmallTemplates == { <<"{", "c", "o", "d", "e", "}">>, <<"{", "x", "}">> }

\* every string made of at most n of these parts
TemplateParts == { <<"{">>, <<"}">>, <<"a">>, <<"x">>, <<"c", "o", "d", "e">> }

PartStrings(n) ==
    UNION {{Join(ps) : ps \in [1..k -> TemplateParts]} : k \in 0..n}

GroupConfigs ==
    {a \o b \o c :
        a \in OptItem("regex", {Str(p) : p \in Patterns}),
        b \in OptItem("log_file_path", {Str(t) : t \in SmallTemplates}),
        c \in OptItem("playlist", {Obj([enable |-> TRUE])})}

\* tables of up to `most` entries, keyed p1, p2, ... in declaration order
GroupTables(most) ==
    UNION {{[i \in 1..n |-> [code |-> GroupCodes[i], config |-> cs[i]]] :
                cs \in [1..n -> GroupConfigs]} : n \in 0..most}

\* one entry that matches every name, with one drawn template of at most
\* `most` parts and one value that is not a string
TemplateTables(most) ==
    {<< [code |-> GroupCodes[1],
         config |-> << <<"log_template", Str(t)>>,
                       <<"playlist", Obj([enable |-> TRUE])>> >>] >> :
        t \in PartStrings(most)}

ReconcileIdle ==
    /\ content = <<>>
    /\ playlist = <<>>
    /\ video_title = <<>>
    /\ log_file = <<>>
    /\ v2_file = <<>>
    /\ runs = <<>>

PipelineIdle ==
    /\ disk = <<>>
    /\ now = 0
    /\ pc = "idle"
    /\ queue = <<>>
    /\ passes = 0
    /\ last = <<>>
    /\ uploaded = <<>>
    /\ posix = TRUE

InitConfig ==
    /\ \/ filename \in FileNames /\ group_settings \in GroupTables(MaxGroups)
       \/ filename = <<"a", ".", "m", "p", "4">>
          /\ group_settings \in TemplateTables(MaxParts)
    /\ resolved = NotCalled
    /\ ReconcileIdle
    /\ PipelineIdle

\* process_video's first statement, on its own
Resolve ==
    /\ resolved = NotCalled
    /\ resolved' = get_group_config(BaseConfig, group_settings, filename)
    /\ UNCHANGED <<filename, group_settings, reconcile_vars, pipeline_vars>>

NextConfig == Resolve

SpecConfig == InitConfig /\ [][NextConfig]_vars

----------------------------------------------------------------------------
(* Claims about ConfigManager *)

\* the entries whose pattern is a substring of the filename
Matching ==
    {i \in 1..Len(group_settings) :
        Contains(filename, regex_of(group_settings[i].config))}

FirstMatching == CHOOSE i \in Matching : \A j \in Matching : i <= j

\* C4: get_group_config applies at most one group override, the first entry
\* in declaration order whose pattern is a substring of the filename: the
\* result carries that entry's code, that entry's (processed) values, the
\* base values for every other key, and no key or value of a later matching
\* entry; with no matching entry the result is the base configuration.
C4_FirstMatchingGroupOnly ==
    resolved.exc = "" =>
        IF Matching = {} THEN resolved.val = BaseConfig
        ELSE LET e == group_settings[FirstMatching]
                 r == resolved.val
             IN  /\ Keys(r) = Keys(BaseConfig) \cup Keys(e.config) \cup {"code"}
                 /\ Get(r, "code") = Str(e.code)
                 /\ \A k \in Keys(e.config) :
                        Get(r, k) = process_value(Get(e.config, k), e.code).val
                 /\ \A k \in Keys(BaseConfig) \ (Keys(e.config) \cup {"code"}) :
                        Get(r, k) = Get(BaseConfig, k)

\* two entries match, and the later one holds a key the first does not
C4_Witness ==
    /\ resolved.exc = ""
    /\ Cardinality(Matching) >= 2
    /\ \E j \in Matching :
          /\ j > FirstMatching
          /\ ~(Keys(group_settings[j].config)
                  \subseteq Keys(group_settings[FirstMatching].config))

\* C5 (as claimed): template substitution is total: get_group_config never
\* fails on a group's string field, a field without the code token comes
\* back unchanged and a field holding it has the group key in its place.
C5_SubstitutionIsTotal ==
    resolved # NotCalled => resolved.exc = ""

----------------------------------------------------------------------------
(* Playlist reconciliation: VideoProcessor._update_playlist_videos *)

\* the title length the platform is sent at most
TitleLimit == 100

\* int(s) of Python for an optional minus sign and decimal digits; anything
\* else the model draws (a video id with a letter) is a ValueError
DigitValue(c) == CHOOSE n \in 0..9 : <<"0", "1", "2", "3", "4", "5", "6", "7", "8", "9">>[n + 1] = c

RECURSIVE digits_value(_, _)
digits_value(s, acc) ==
    IF s = <<>> THEN acc
    ELSE digits_value(Tail(s), 10 * acc + DigitValue(Head(s)))

int(s) ==
    LET neg == s # <<>> /\ Head(s) = "-"
        body == IF neg THEN Tail(s) ELSE s
    IN  IF body = <<>> \/ \E i \in 1..Len(body) : body[i] \notin Digits
        THEN Raised("ValueError")
        ELSE Returned(IF neg THEN 0 - digits_value(body, 0)
                      ELSE digits_value(body, 0))

\* A manifest is a sequence of chunks: plain text that holds no link, a
\* direct link [title](https://youtu.be/<arg>) and a positional link
\* [title](https://goto.slog.gg/youtube/x/<arg>). re.finditer with the
\* first pattern yields the direct chunks in order, with the second the
\* positional chunks in order.
\* The fixed pieces of a link are single elements of a string: they are
\* matched and copied whole, and no title or id of the model holds a part of
\* one.
YoutuBe == <<"https://youtu.be/">>
GotoSlog == <<"https://", "goto.slog.gg", "/youtube/x/">>
\* 'goto.slog.gg', the text the loop tells a positional link by
Marker == <<"goto.slog.gg">>

TextChunk(t) == [kind |-> "text", title |-> <<>>, arg |-> t]
Direct(t, id) == [kind |-> "direct", title |-> t, arg |-> id]
Goto(t, index) == [kind |-> "goto", title |-> t, arg |-> index]

\* f'[{md_title}](https://youtu.be/{video_id})'
youtube_link(md_title, video_id) ==
    <<"[">> \o md_title \o <<"]", "(">> \o YoutuBe \o video_id \o <<")">>

\* match.group(0): the text of a chunk
group0(c) ==
    IF c.kind = "text" THEN c.arg
    ELSE IF c.kind = "direct" THEN youtube_link(c.title, c.arg)
    ELSE <<"[">> \o c.title \o <<"]", "(">> \o GotoSlog \o c.arg \o <<")">>

\* the matches of the two patterns, first all of pattern 1, then all of
\* pattern 2, each as the index of its chunk
matches_of(chunks) ==
    LET idx == [i \in 1..Len(chunks) |-> i]
    IN  SelectSeq(idx, LAMBDA i : chunks[i].kind = "direct")
        \o SelectSeq(idx, LAMBDA i : chunks[i].kind = "goto")

\* get_playlist_items: the snapshot of the playlist
get_playlist_items(pl, titles) ==
    [i \in 1..Len(pl) |-> [videoId |-> pl[i], title |-> titles[pl[i]]]]

\* playlist_items[position] of Python, position counted from 0 and a
\* negative position counted from the end
list_index(items, position) ==
    IF position >= Len(items) \/ position < 0 - Len(items)
    THEN Raised("IndexError")
    ELSE Returned(items[(IF position < 0 THEN position + Len(items)
                         ELSE position) + 1])

\* next((item for item in playlist_items if item['videoId'] == video_id))
first_item(items, video_id) ==
    items[CHOOSE i \in 1..Len(items) :
            /\ items[i].videoId = video_id
            /\ \A j \in 1..(i - 1) : items[j].videoId # video_id]

\* the offset from the wrong end: a positive position is not reduced by one
resolve_position_not_shifted(position, length) ==
    IF position < 0 THEN length + position ELSE position

\* lines 569-572: the snapshot offset of a position, 1-based from the start
\* or negative from the end
resolve_position(position, length) ==
    IF position < 0 THEN length + position ELSE position - 1

\* a submission that keeps the whole title
submitted_title_untruncated(title) == title

\* update_video's truncation of the title it submits
submitted_title(title) ==
    IF Len(title) > TitleLimit THEN TakeFirst(title, TitleLimit) ELSE title

\* what the iteration on the chunk at index `at` did, and to which video:
\* "link" (a rewrite pair appended), "change" (a TitleChange appended),
\* "update" (update_video called) or "raise" (an exception left the loop)
Event(at, did, video_id) == [at |-> at, did |-> did, video_id |-> video_id]

\* The locals of the loop before its first iteration. video_id is not
\* assigned yet (bound = FALSE).
LoopStart ==
    [exc |-> "", bound |-> FALSE, video_id |-> <<>>, changes |-> <<>>,
     youtube_links |-> <<>>, updates |-> <<>>, events |-> <<>>]

\* the lines 588-606 of an iteration, once video_id is (or is not) set
compare_and_update(st, at, c, items, fail_update) ==
    IF ~st.bound
    THEN [st EXCEPT !.exc = "UnboundLocalError",
                    !.events = Append(@, Event(at, "raise", <<>>))]
    ELSE IF st.video_id \notin {items[i].videoId : i \in 1..Len(items)}
    THEN st
    ELSE LET video_item == first_item(items, st.video_id)
         IN  IF video_item.title = c.title THEN st
             ELSE LET changed ==
                          [st EXCEPT
                             !.changes = Append(@,
                                 [video_id |-> st.video_id,
                                  old_title |-> video_item.title,
                                  new_title |-> c.title]),
                             !.events = Append(@, Event(at, "change", st.video_id))]
                  IN  IF Len(st.updates) + 1 = fail_update
                      THEN [changed EXCEPT
                              !.exc = "HttpError",
                              !.events = Append(@, Event(at, "raise", <<>>))]
                      ELSE [changed EXCEPT
                              !.updates = Append(@,
                                  [video_id |-> st.video_id,
                                   title |-> submitted_title(c.title)]),
                              !.events = Append(@, Event(at, "update", st.video_id))]

\* one iteration of the loop over the matches: chunk c at index `at`
iteration(st, at, c, items, fail_update) ==
    IF Contains(group0(c), Marker)
    THEN LET n == int(c.arg)
         IN  IF n.exc # ""
             THEN [st EXCEPT !.exc = n.exc,
                             !.events = Append(@, Event(at, "raise", <<>>))]
             ELSE LET position == resolve_position(n.val, Len(items))
                  IN  IF position < Len(items)
                      THEN LET item == list_index(items, position)
                           IN  IF item.exc # ""
                               THEN [st EXCEPT
                                       !.exc = item.exc,
                                       !.events = Append(@, Event(at, "raise", <<>>))]
                               ELSE compare_and_update(
                                       [st EXCEPT
                                          !.bound = TRUE,
                                          !.video_id = item.val.videoId,
                                          !.youtube_links = Append(@,
                                              [original |-> group0(c),
                                               youtube |-> youtube_link(c.title, item.val.videoId)]),
                                          !.events = Append(@, Event(at, "link", item.val.videoId))],
                                       at, c, items, fail_update)
                      ELSE compare_and_update(st, at, c, items, fail_update)
    ELSE compare_and_update(
            [st EXCEPT !.bound = TRUE,
                       !.video_id = c.arg,
                       !.youtube_links = Append(@,
                           [original |-> group0(c), youtube |-> group0(c)]),
                       !.events = Append(@, Event(at, "link", c.arg))],
            at, c, items, fail_update)

RECURSIVE match_loop(_, _, _, _, _)
match_loop(st, ms, chunks, items, fail_update) ==
    IF ms = <<>> \/ st.exc # "" THEN st
    ELSE match_loop(iteration(st, Head(ms), chunks[Head(ms)], items, fail_update),
                    Tail(ms), chunks, items, fail_update)

\* replace_links with the two sides of a pair taken for each other
RECURSIVE replace_links_swapped(_, _)
replace_links_swapped(texts, links) ==
    IF links = <<>> THEN texts
    ELSE replace_links_swapped(
            [i \in 1..Len(texts) |->
                IF texts[i] = Head(links).youtube THEN Head(links).original
                ELSE texts[i]],
            Tail(links))

\* v2_content.replace(link['original'], link['youtube']) for every link in
\* order, on the texts of the chunks: a chunk is replaced when its whole
\* text is the original (no chunk's text occurs inside another chunk)
RECURSIVE replace_links(_, _)
replace_links(texts, links) ==
    IF links = <<>> THEN texts
    ELSE replace_links(
            [i \in 1..Len(texts) |->
                IF texts[i] = Head(links).original THEN Head(links).youtube
                ELSE texts[i]],
            Tail(links))

NoFile == <<"no file">>

\* _update_playlist_videos(md_file, playlist_id, log_file_path) on the
\* manifest `chunks` and the platform's playlist: what the run did. `fail`
\* names the call that the environment makes fail: "list"
\* (get_playlist_items), "update" (the fail_update-th update_video), "log"
\* (the append to the log file), "v2" (the write of the v2 file) or "none".
_update_playlist_videos(chunks, pl, titles, fail, fail_update) ==
    IF fail = "list"
    THEN [LoopStart EXCEPT !.exc = "HttpError"]
            @@ [log_block |-> <<>>, wrote_log |-> FALSE,
                v2_content |-> NoFile, wrote_v2 |-> FALSE]
    ELSE LET items == get_playlist_items(pl, titles)
             st == match_loop(LoopStart, matches_of(chunks), chunks, items,
                              IF fail = "update" THEN fail_update ELSE 0)
             texts == [i \in 1..Len(chunks) |-> group0(chunks[i])]
         IN  IF st.exc # "" \/ st.changes = <<>>
             THEN st @@ [log_block |-> <<>>, wrote_log |-> FALSE,
                         v2_content |-> NoFile, wrote_v2 |-> FALSE]
             ELSE IF fail = "log"
             THEN [st EXCEPT !.exc = "OSError"]
                     @@ [log_block |-> <<>>, wrote_log |-> FALSE,
                         v2_content |-> NoFile, wrote_v2 |-> FALSE]
             ELSE IF fail = "v2"
             THEN [st EXCEPT !.exc = "OSError"]
                     @@ [log_block |-> st.changes, wrote_log |-> TRUE,
                         v2_content |-> NoFile, wrote_v2 |-> FALSE]
             ELSE st @@ [log_block |-> st.changes, wrote_log |-> TRUE,
                         v2_content |-> replace_links(texts, st.youtube_links),
                         wrote_v2 |-> TRUE]

\* the platform's titles after the update_video calls of a run
RECURSIVE apply_updates(_, _)
apply_updates(titles, updates) ==
    IF updates = <<>> THEN titles
    ELSE apply_updates([titles EXCEPT ![Head(updates).video_id] = Head(updates).title],
                       Tail(updates))

----------------------------------------------------------------------------
(* Reconciliation under test: runs of _update_playlist_videos on drawn    *)
(* manifests and playlists                                                 *)

\* the links of a manifest and the videos of a playlist
MaxRefs == 2
MaxPlaylist == 5

Old == <<"O", "l", "d">>
Intro == <<"I", "n", "t", "r", "o">>
Mid == <<"M", "i", "d">>
\* a title one character longer than the platform takes
Long == [i \in 1..(TitleLimit + 1) |-> "x"]

Vid(i) == <<"v", <<"1", "2", "3", "4", "5", "6", "7", "8", "9">>[i]>>

\* the links a manifest is made of
Refs ==
    { Direct(Intro, Vid(1)), Direct(Marker, <<"2">>),
      Goto(Intro, <<"1">>), Goto(Intro, <<"3">>), Goto(Intro, <<"0">>),
      Goto(Mid, <<"-", "1">>), Goto(Intro, <<"-", "3">>) }

ListItem == TextChunk(<<"-", " ">>)

\* "- <link>- <link>..." of at most `most` links: every link after a piece
\* of plain text; and the manifest of one link whose title is longer than
\* the platform takes
Manifests(most) ==
    UNION {{[i \in 1..(2 * n) |-> IF i % 2 = 1 THEN ListItem ELSE rs[i \div 2]] :
                rs \in [1..n -> Refs]} : n \in 0..most}
    \cup {<<ListItem, Goto(Long, <<"1">>)>>}

\* the call the environment makes fail in a run, and for update_video which
\* of the run's calls
FailPoints ==
    {<<f, 0>> : f \in {"none", "log"}}
    \cup {<<"update", k>> : k \in 1..MaxRefs}

ConfigIdle ==
    /\ filename = <<>>
    /\ group_settings = <<>>
    /\ resolved = NotCalled

InitReconcile ==
    /\ content \in Manifests(MaxRefs)
    /\ \E n \in 0..MaxPlaylist, t1 \in {Old, Intro} :
          /\ playlist = [i \in 1..n |-> Vid(i)]
          /\ video_title = [v \in {Vid(i) : i \in 1..n} |->
                               IF v = Vid(1) THEN t1 ELSE Mid]
    /\ log_file = <<>>
    /\ v2_file = NoFile
    /\ runs = <<>>
    /\ ConfigIdle
    /\ PipelineIdle

\* one run of _update_playlist_videos on the manifest, with the platform
\* and the files as the runs before left them
RunReconcile(fail, fail_update) ==
    /\ \E r \in {_update_playlist_videos(content, playlist, video_title,
                                         fail, fail_update)} :
           /\ video_title' = apply_updates(video_title, r.updates)
           /\ log_file' = IF r.wrote_log THEN Append(log_file, r.log_block)
                          ELSE log_file
           /\ v2_file' = IF r.wrote_v2 THEN r.v2_content ELSE v2_file
           /\ runs' = Append(runs, r @@ [snapshot |->
                                 get_playlist_items(playlist, video_title)])
    /\ UNCHANGED <<content, playlist, config_vars, pipeline_vars>>

\* the manifest is processed
Reconcile(fail, fail_update) ==
    /\ runs = <<>>
    /\ RunReconcile(fail, fail_update)

\* the same manifest is processed a second time (dropped again by the
\* operator, or retried after a failed pass)
ReconcileAgain(fail, fail_update) ==
    /\ Len(runs) = 1
    /\ RunReconcile(fail, fail_update)

NextReconcile ==
    \E fail \in FailPoints :
        \/ Reconcile(fail[1], fail[2])
        \/ ReconcileAgain(fail[1], fail[2])

SpecReconcile == InitReconcile /\ [][NextReconcile]_vars

----------------------------------------------------------------------------
(* Claims about the reconciliation *)

\* the positional links of the manifest and the index each one gives
Positional == {i \in 1..Len(content) : content[i].kind = "goto"}

IndexOf(i) == int(content[i].arg).val

\* the offset the index of link i stands for in a snapshot of `len` items:
\* p - 1 for a positive p, len + p for a negative p
OffsetOf(i, len) ==
    IF IndexOf(i) > 0 THEN IndexOf(i) - 1 ELSE len + IndexOf(i)

InRange(i, len) ==
    IndexOf(i) # 0 /\ 0 <= OffsetOf(i, len) /\ OffsetOf(i, len) < len

\* what a run did in the iteration on chunk i
EventsAt(r, i) == {r.events[k] : k \in {k \in 1..Len(r.events) : r.events[k].at = i}}

SnapshotIds(r) == {r.snapshot[k].videoId : k \in 1..Len(r.snapshot)}

Runs == {runs[n] : n \in 1..Len(runs)}

\* C6: a positional link with positive index p resolves to snapshot offset
\* p - 1, one with negative index p to len(snapshot) + p: whenever that
\* offset is in the snapshot, the video id the run uses for the link (in its
\* rewrite pair, its TitleChange and its update_video call) is the one at
\* that offset of the snapshot fetched for the run, and a run that completes
\* has recorded the rewrite pair to that video.
C6_PositionalResolution ==
    \A r \in Runs : \A i \in Positional :
        InRange(i, Len(r.snapshot)) =>
            LET video_id == r.snapshot[OffsetOf(i, Len(r.snapshot)) + 1].videoId
            IN  /\ \A e \in EventsAt(r, i) :
                      e.did # "raise" => e.video_id = video_id
                /\ r.exc = "" =>
                      /\ \E e \in EventsAt(r, i) : e.did = "link"
                      /\ \E k \in 1..Len(r.youtube_links) :
                            r.youtube_links[k] =
                                [original |-> group0(content[i]),
                                 youtube |-> youtube_link(content[i].title, video_id)]

\* index 1 resolved to the first and index -1 to the fifth item of a
\* snapshot of five
C6_Witness ==
    \E r \in Runs : \E i, j \in Positional :
        /\ Len(r.snapshot) = 5
        /\ IndexOf(i) = 1 /\ IndexOf(j) = 0 - 1
        /\ [at |-> i, did |-> "link", video_id |-> Vid(1)] \in EventsAt(r, i)
        /\ [at |-> j, did |-> "link", video_id |-> Vid(5)] \in EventsAt(r, j)

\* C7 (as claimed): a positional link whose resolved offset is outside the
\* snapshot (index 0, an index below -len or above len, any index over an
\* empty snapshot) is skipped wherever it stands: its iteration records no
\* rewrite pair and no TitleChange, calls update_video for no video and
\* raises nothing.
C7_OutOfRangeSkipped ==
    \A r \in Runs : \A i \in Positional :
        ~InRange(i, Len(r.snapshot)) => EventsAt(r, i) = {}

\* C8 (as claimed): after a first run that completed, a second run on the
\* same manifest, the platform changed only by the first run's update_video
\* calls, records no TitleChange, calls update_video for no video and writes
\* no log block and no v2 file.
C8_SecondRunChangesNothing ==
    (Len(runs) >= 2 /\ runs[1].exc = "") =>
        /\ runs[2].changes = <<>>
        /\ runs[2].updates = <<>>
        /\ ~runs[2].wrote_log
        /\ ~runs[2].wrote_v2

C10_LogAndV2IffChanges ==
    \A r \in Runs :
        /\ r.wrote_log <=> r.changes # <<>>
        /\ r.wrote_v2 <=> r.changes # <<>>
        /\ r.wrote_log => r.log_block = r.changes

----------------------------------------------------------------------------
(* The file system: pathlib.Path on the files of the upload folder and of  *)
(* the after-upload directories. A path is <<directory, name>>; a file     *)
(* keeps the name and time it was created with and its last-modified time. *)

File(origin, t) == [origin |-> origin, born |-> t, mtime |-> t]

\* Path.unlink
unlink(d, p) == [q \in DOMAIN d \ {p} |-> d[q]]

\* Path.rename(dst): the file moves with its modification time. A missing
\* source is a FileNotFoundError; an existing target is replaced silently
\* on POSIX and is a FileExistsError on Windows.
rename(d, src, dst) ==
    IF src \notin DOMAIN d THEN [exc |-> "FileNotFoundError", disk |-> d]
    ELSE IF src = dst THEN [exc |-> "", disk |-> d]
    ELSE IF dst \in DOMAIN d /\ ~posix
    THEN [exc |-> "FileExistsError", disk |-> d]
    ELSE [exc |-> "",
          disk |-> [q \in (DOMAIN d \ {src}) \cup {dst} |->
                       IF q = dst THEN d[src] ELSE d[q]]]

\* os.path.splitext(name): <<root, ext>>, split at the last dot that has a
\* character other than a dot before it
splitext(name) ==
    LET dots == {i \in 1..Len(name) :
                    name[i] = "." /\ \E j \in 1..(i - 1) : name[j] # "."}
    IN  IF dots = {} THEN <<name, <<>>>>
        ELSE LET i == CHOOSE k \in dots : \A m \in dots : m <= k
             IN  <<SubSeq(name, 1, i - 1), SubSeq(name, i, Len(name))>>

\* str(n) for a natural number
RECURSIVE Decimal(_)
Decimal(n) ==
    LET digit == <<"0", "1", "2", "3", "4", "5", "6", "7", "8", "9">>[(n % 10) + 1]
    IN  IF n < 10 THEN <<digit>> ELSE Append(Decimal(n \div 10), digit)

\* sorted(paths, reverse=True): the names of a set in descending order
RECURSIVE sorted_descending(_)
sorted_descending(names) ==
    IF names = {} THEN <<>>
    ELSE LET greatest == CHOOSE a \in names : \A b \in names \ {a} : StrLess(b, a)
         IN  <<greatest>> \o sorted_descending(names \ {greatest})

\* sorted(paths): the names of a set in ascending order
RECURSIVE sorted(_)
sorted(names) ==
    IF names = {} THEN <<>>
    ELSE LET least == CHOOSE a \in names : \A b \in names \ {a} : StrLess(a, b)
         IN  <<least>> \o sorted(names \ {least})

----------------------------------------------------------------------------
(* FileManager *)

\* the modification age below which a scan leaves a file alone
Debounce == 30

VideoFile(path, original_name) == [path |-> path, original_name |-> original_name]

name_without_ext(video) == splitext(video.original_name)[1]

\* safe_rename(src, dst): an existing target is deleted first
safe_rename(d, src, dst) ==
    rename(IF dst \in DOMAIN d THEN unlink(d, dst) ELSE d, src, dst)

\* prepare_upload(video): the pending file is renamed to its uploading name
prepare_upload(d, video) ==
    LET uploading_path == <<upload_folder, uploading_prefix \o video.original_name>>
    IN  rename(d, video.path, uploading_path) @@ [val |-> uploading_path]

\* _create_done_filename(video, video_id, config)
_create_done_filename(video, video_id, config) ==
    LET base_name ==
            format_from(Get(config, "output_filename_template").str, 1,
                        (<<"o", "r", "i", "g", "i", "n", "a", "l", "_",
                           "n", "a", "m", "e">> :> name_without_ext(video))
                        @@ (<<"v", "i", "d", "e", "o", "_", "i", "d">> :> video_id),
                        <<>>)
    IN  IF base_name.exc # "" THEN base_name
        ELSE Returned(Get(config, "status_prefix").obj.done \o base_name.val)

\* config.get('after_upload_dir', self.upload_folder)
after_upload_dir(config) ==
    IF Has(config, "after_upload_dir") THEN Get(config, "after_upload_dir").str
    ELSE upload_folder

\* finish_upload(uploading_path, video, video_id, config); mkdir is whether
\* ensure_directory can make the target directory
finish_upload(d, uploading_path, video, video_id, config, mkdir) ==
    LET done_name == _create_done_filename(video, video_id, config)
    IN  IF done_name.exc # "" THEN [exc |-> done_name.exc, disk |-> d]
        ELSE IF ~mkdir THEN [exc |-> "OSError", disk |-> d]
        ELSE rename(d, uploading_path, <<after_upload_dir(config), done_name.val>>)

\* a scan that takes a file however lately it was modified
get_pending_videos_no_debounce(d, current_time) ==
    LET entries == sorted({q[2] : q \in {e \in DOMAIN d : e[1] = upload_folder}})
        files == SelectSeq(entries, LAMBDA name :
                    /\ StartsWith(name, prefix)
                    /\ EndsWith(name, <<".", "m", "p", "4">>)
                       \/ EndsWith(name, <<".", "m", "d">>))
    IN  [i \in 1..Len(files) |->
            VideoFile(<<upload_folder, files[i]>>, DropFirst(files[i], Len(prefix)))]

\* get_pending_videos() at time current_time: the entries of the upload
\* folder in sorted order that start with the prefix, end in .mp4 or .md
\* and were modified at least Debounce seconds ago
get_pending_videos(d, current_time) ==
    LET entries == sorted({q[2] : q \in {e \in DOMAIN d : e[1] = upload_folder}})
        files == SelectSeq(entries, LAMBDA name :
                    /\ StartsWith(name, prefix)
                    /\ EndsWith(name, <<".", "m", "p", "4">>)
                       \/ EndsWith(name, <<".", "m", "d">>)
                    /\ ~(current_time - d[<<upload_folder, name>>].mtime < Debounce))
    IN  [i \in 1..Len(files) |->
            VideoFile(<<upload_folder, files[i]>>, DropFirst(files[i], Len(prefix)))]

----------------------------------------------------------------------------
(* YouTubeUploader.upload_video and VideoProcessor.process_video           *)

\* What the environment does to the calls of one process_video: upload is
\* "ok", "error" (the chunked upload raises) or "interrupt" (the operator's
\* Ctrl-C arrives during the upload); add, log and mkdir are whether
\* add_to_playlist, the append to the log file and ensure_directory
\* succeed; fail is the failing call of a reconciliation.
Env(upload, add, log, mkdir, fail) ==
    [upload |-> upload, add |-> add, log |-> log, mkdir |-> mkdir, fail |-> fail]

\* the id the platform gives the k-th uploaded video: abc123, abc124, ...
VideoId(k) == <<"a", "b", "c">> \o Decimal(122 + k)

\* playlist_config.get('enable') and playlist_config.get('code')
playlist_enabled(config) ==
    /\ Has(config, "playlist")
    /\ LET playlist_config == Get(config, "playlist").obj
       IN  /\ "enable" \in DOMAIN playlist_config /\ playlist_config.enable
           /\ "code" \in DOMAIN playlist_config /\ playlist_config.code # <<>>

\* _prepare_request: the title of the request body
request_title(video_file) ==
    LET original_name == DropFirst(video_file[2], Len(uploading_prefix))
        full_title == splitext(original_name)[1]
    IN  IF Len(full_title) > TitleLimit THEN TakeFirst(full_title, TitleLimit)
        ELSE full_title

\* the label that opens every description the program writes (the Korean
\* word for title and ": "), and the heading "\n\n<log>\n" that update_video's
\* caller puts after the title; each is one element of a string
TitleLabel == <<"title: ">>
LogHeading == <<"\n\nlog\n">>

\* line 264-266: label, full title, "\n\n", and the default_description after
\* it when the configuration has one
request_description(video_file, config) ==
    LET original_name == DropFirst(video_file[2], Len(uploading_prefix))
        full_title == splitext(original_name)[1]
    IN  TitleLabel \o full_title \o <<"\n\n">>
            \o (IF Has(config, "default_description")
                   /\ Get(config, "default_description").str # <<>>
                THEN Get(config, "default_description").str ELSE <<>>)

\* _prepare_request(video_file, config): the snippet of the request body
_prepare_request(video_file, config) ==
    [title |-> request_title(video_file),
     description |-> request_description(video_file, config)]

\* update_video(video_id, title, description): the snippet it submits
update_video(video_id, title, description) ==
    [id |-> video_id, title |-> submitted_title(title), description |-> description]

\* line 606: the update_video call of the reconciliation for the manifest
\* title md_title and the playlist item's description
update_call(video_id, md_title, item_description) ==
    update_video(video_id, md_title,
                 TitleLabel \o md_title \o LogHeading \o item_description)

\* the longest full title drawn
MaxTitle == 102

\* a full title of n characters, no two neighbours alike
TitleChars == <<"a", "b", "c", "d", "e", "f", "g", "h", "i", "j">>

FullTitle(n) == [i \in 1..n |-> TitleChars[(i % 10) + 1]]

DefaultDescriptions == {<<>>, << <<"default_description", Str(<<"d">>)>> >>}

ItemDescriptions == {<<>>, <<"o", "l", "d">>}

\* a full title, as the stem of a video's name and as a manifest's title
\* (not empty: the stem of the name ".mp4" is the whole name, and the
\* manifest's pattern takes no empty title)
InitTitles ==
    /\ filename \in {FullTitle(n) : n \in 1..MaxTitle}
    /\ group_settings = <<>>
    /\ resolved = NotCalled
    /\ ReconcileIdle
    /\ PipelineIdle

\* upload_video's request for the video of that name, in the Uploading state
PrepareRequest(config) ==
    /\ resolved = NotCalled
    /\ resolved' = Returned(_prepare_request(
                        <<upload_folder,
                          uploading_prefix \o filename \o <<".", "m", "p", "4">> >>,
                        config))
    /\ UNCHANGED <<filename, group_settings, reconcile_vars, pipeline_vars>>

\* the reconciliation's update_video call for a manifest title
UpdateVideo(item_description) ==
    /\ resolved = NotCalled
    /\ resolved' = Returned(update_call(Vid(1), filename, item_description))
    /\ UNCHANGED <<filename, group_settings, reconcile_vars, pipeline_vars>>

NextTitles ==
    \/ \E d \in DefaultDescriptions : PrepareRequest(BaseConfig \o d)
    \/ \E d \in ItemDescriptions : UpdateVideo(d)

SpecTitles == InitTitles /\ [][NextTitles]_vars

NoUpload == [video_id |-> <<>>, title |-> <<>>, added |-> FALSE]

\* upload_video whose add_to_playlist is outside a try: its failure leaves
\* the function
upload_video_add_raises(video_file, config, env) ==
    IF env.upload = "error" \/ (playlist_enabled(config) /\ ~env.add)
    THEN Raised("HttpError") @@ [upload |-> NoUpload]
    ELSE IF env.upload = "interrupt"
    THEN Raised("KeyboardInterrupt") @@ [upload |-> NoUpload]
    ELSE Returned(VideoId(Len(uploaded) + 1))
            @@ [upload |-> [video_id |-> VideoId(Len(uploaded) + 1),
                            title |-> request_title(video_file),
                            added |-> playlist_enabled(config)]]

\* upload_video(video_file, config): the id of the new video, or the
\* exception of _execute_upload. A failure of add_to_playlist is swallowed.
upload_video(video_file, config, env) ==
    IF env.upload = "error" THEN Raised("HttpError") @@ [upload |-> NoUpload]
    ELSE IF env.upload = "interrupt"
    THEN Raised("KeyboardInterrupt") @@ [upload |-> NoUpload]
    ELSE LET video_id == VideoId(Len(uploaded) + 1)
         IN  Returned(video_id)
                @@ [upload |-> [video_id |-> video_id,
                                title |-> request_title(video_file),
                                added |-> playlist_enabled(config) /\ env.add]]

\* '- [{file_name_without_ext}]({url})'
default_log_template ==
    <<"-", " ", "[", "{", "f", "i", "l", "e", "_", "n", "a", "m", "e", "_",
      "w", "i", "t", "h", "o", "u", "t", "_", "e", "x", "t", "}", "]", "(",
      "{", "u", "r", "l", "}", ")">>

\* _write_log(video, video_id, config): the line appended to the log file,
\* <<>> when there is no log file or the write fails; every exception is
\* swallowed
_write_log(video, video_id, config, env) ==
    IF ~Has(config, "log_file_path") \/ Get(config, "log_file_path").str = <<>>
    THEN <<>>
    ELSE LET log_template ==
                 IF Has(config, "log_template") THEN Get(config, "log_template").str
                 ELSE default_log_template
             log_entry ==
                 format_from(log_template, 1,
                     (<<"f", "i", "l", "e", "_", "n", "a", "m", "e", "_", "w",
                        "i", "t", "h", "o", "u", "t", "_", "e", "x", "t">>
                          :> name_without_ext(video))
                     @@ (<<"u", "r", "l">> :> YoutuBe \o video_id)
                     @@ (<<"v", "i", "d", "e", "o", "_", "i", "d">> :> video_id),
                     <<>>)
         IN  IF log_entry.exc # "" \/ ~env.log THEN <<>>
             ELSE << log_entry.val >>

\* datetime.now().strftime('___%Y_%m_%d__%H_%M_%S'): the clock to the second
timestamp(t) == <<"_", "_", "_">> \o Decimal(t)

NoRun == [exc |-> "not run"]

\* the entry of group_settings under exactly this key, 0 when there is none
entry_of(group_code) ==
    IF \E i \in 1..Len(group_settings) : group_settings[i].code = group_code
    THEN CHOOSE i \in 1..Len(group_settings) : group_settings[i].code = group_code
    ELSE 0

\* the rest of _handle_markdown once target_dir is known: the done name
\* with the timestamp, ensure_directory and safe_rename
move_markdown(d, uploading_path, video, config, env, target_dir, recon) ==
    LET parts == splitext(video.original_name)
        new_filename == Get(config, "status_prefix").obj.done
                            \o parts[1] \o timestamp(now) \o parts[2]
    IN  IF ~env.mkdir THEN [exc |-> "OSError", disk |-> d, recon |-> recon]
        ELSE safe_rename(d, uploading_path, <<target_dir, new_filename>>)
                @@ [recon |-> recon]

\* lines 506-524 of _handle_markdown, with the run r of
\* _update_playlist_videos: its exception leaves the function, and after a
\* run without one the file is moved
after_update_playlist_videos(r, d, uploading_path, video, config, env, target_dir) ==
    IF r.exc # "" THEN [exc |-> r.exc, disk |-> d, recon |-> r]
    ELSE move_markdown(d, uploading_path, video, config, env, target_dir, r)

\* lines 502-506 of _handle_markdown, for the entry group_config found
\* under the key group_code
with_group_config(group_config, group_code, d, uploading_path, video, config, env) ==
    IF ~Has(group_config, "after_upload_dir") \/ ~Has(group_config, "log_file_path")
    THEN [exc |-> "KeyError", disk |-> d, recon |-> NoRun]
    ELSE IF format(Get(group_config, "after_upload_dir").str, group_code).exc # ""
    THEN [exc |-> format(Get(group_config, "after_upload_dir").str, group_code).exc,
          disk |-> d, recon |-> NoRun]
    ELSE IF format(Get(group_config, "log_file_path").str, group_code).exc # ""
    THEN [exc |-> format(Get(group_config, "log_file_path").str, group_code).exc,
          disk |-> d, recon |-> NoRun]
    ELSE IF Has(group_config, "playlist")
            /\ "enable" \in DOMAIN Get(group_config, "playlist").obj
            /\ Get(group_config, "playlist").obj.enable
    THEN IF "code" \notin DOMAIN Get(group_config, "playlist").obj
         THEN [exc |-> "KeyError", disk |-> d, recon |-> NoRun]
         ELSE after_update_playlist_videos(
                 _update_playlist_videos(content, playlist, video_title,
                                         env.fail[1], env.fail[2]),
                 d, uploading_path, video, config, env,
                 format(Get(group_config, "after_upload_dir").str, group_code).val)
    ELSE move_markdown(d, uploading_path, video, config, env,
                       format(Get(group_config, "after_upload_dir").str, group_code).val,
                       NoRun)

\* _handle_markdown(uploading_path, video, config): every exception is
\* raised again
_handle_markdown(d, uploading_path, video, config, env) ==
    IF entry_of(splitext(video.original_name)[1]) = 0
    THEN move_markdown(d, uploading_path, video, config, env,
                       after_upload_dir(config), NoRun)
    ELSE with_group_config(
            group_settings[entry_of(splitext(video.original_name)[1])].config,
            splitext(video.original_name)[1],
            d, uploading_path, video, config, env)

\* what a process_video call did, besides the exception that left it (or
\* "") and the disk: whether uploading_path was assigned, the upload, the
\* line written to the log file and the reconciliation run
Outcome(bound, uploading_path, upload, log_entry) ==
    [bound |-> bound, uploading_path |-> uploading_path,
     upload |-> upload, log_entry |-> log_entry]

\* lines 423-424 of process_video, once upload_video has ended as v
with_video_id(v, d, uploading_path, video, config, env) ==
    IF v.exc # ""
    THEN [exc |-> v.exc, disk |-> d, recon |-> NoRun]
            @@ Outcome(TRUE, uploading_path, NoUpload, <<>>)
    ELSE finish_upload(d, uploading_path, video, v.val, config, env.mkdir)
            @@ [recon |-> NoRun]
            @@ Outcome(TRUE, uploading_path, v.upload,
                       _write_log(video, v.val, config, env))

\* lines 415-425 of process_video, once prepare_upload has ended as prepared
with_uploading_path(prepared, video, config, env) ==
    IF prepared.exc # ""
    THEN [exc |-> prepared.exc, disk |-> prepared.disk, recon |-> NoRun]
            @@ Outcome(FALSE, <<>>, NoUpload, <<>>)
    ELSE IF EndsWith(video.original_name, <<".", "m", "d">>)
    THEN _handle_markdown(prepared.disk, prepared.val, video, config, env)
            @@ Outcome(TRUE, prepared.val, NoUpload, <<>>)
    ELSE with_video_id(upload_video(prepared.val, config, env),
                       prepared.disk, prepared.val, video, config, env)

\* lines 415-425 of process_video, once get_group_config has ended as config
with_config(config, d, video, env) ==
    IF config.exc # ""
    THEN [exc |-> config.exc, disk |-> d, recon |-> NoRun]
            @@ Outcome(FALSE, <<>>, NoUpload, <<>>)
    ELSE with_uploading_path(prepare_upload(d, video), video, config.val, env)

\* the try block of process_video
try_block(d, video, env) ==
    with_config(get_group_config(BaseConfig, group_settings, video.original_name),
                d, video, env)

\* the handler without its rename: the file stays where the failure left it
restore_skipped(d, uploading_path, video) == d

\* lines 430-431: uploading_path.rename(video.path)
restore(d, uploading_path, video) == rename(d, uploading_path, video.path).disk

\* the except clause of process_video on the outcome r of the try block:
\* on an Exception the file is renamed back when uploading_path was
\* assigned, and the exception is raised again. A KeyboardInterrupt is no
\* Exception: the clause does not run.
except_clause(r, video) ==
    IF r.exc \in {"", "KeyboardInterrupt"} \/ ~r.bound THEN r
    ELSE [r EXCEPT !.disk = restore(r.disk, r.uploading_path, video)]

\* process_video(video)
process_video(d, video, env) == except_clause(try_block(d, video, env), video)

----------------------------------------------------------------------------
(* main: the scan loop on a folder that external producers drop files in  *)

\* config['scan_interval'], in seconds
scan_interval == 20

\* the scans of a run and the files on disk
MaxPasses == 2
MaxFiles == 2

movie1 == <<"m", "o", "v", "i", "e", "1", ".", "m", "p", "4">>
a_mp4 == <<"a", ".", "m", "p", "4">>
p1_md == <<"p", "1", ".", "m", "d">>
a_txt == <<"a", ".", "t", "x", "t">>

\* the names producers drop files under
Arrivals == {prefix \o movie1, prefix \o a_mp4, prefix \o p1_md}

\* what the folder may hold at start: pending files, a file a killed run
\* left under its uploading name, and a file of another kind under the
\* pending prefix
StartEntries == Arrivals \cup {uploading_prefix \o a_mp4, prefix \o a_txt}

\* no group, or the group p1 with a playlist, told by "p1" or by "a"
PipelineTables ==
    {<<>>} \cup
    {<< [code |-> <<"p", "1">>,
         config |-> << <<"regex", Str(rx)>>,
                       <<"after_upload_dir", Str(<<"{", "c", "o", "d", "e", "}">>)>>,
                       <<"log_file_path", Str(<<"{", "c", "o", "d", "e", "}", ".", "m", "d">>)>>,
                       <<"playlist", Obj([enable |-> TRUE, code |-> <<"P", "L">>])>> >>] >> :
        rx \in {<<"p", "1">>, <<"a">>}}

\* the environments of a video's and of a manifest's processing
VideoEnvs ==
    {Env("ok", a, l, m, <<"none", 0>>) : a \in BOOLEAN, l \in BOOLEAN, m \in BOOLEAN}
    \cup {Env(u, TRUE, TRUE, TRUE, <<"none", 0>>) : u \in {"error", "interrupt"}}

ManifestEnvs ==
    {Env("ok", TRUE, TRUE, m, f) :
        m \in BOOLEAN, f \in {<<"none", 0>>, <<"list", 0>>, <<"update", 1>>}}

\* the folders a run starts on: at most `most` entries; the file of another
\* kind stands alone or beside the pending video a.mp4
StartFolders(most) ==
    {names \in SUBSET StartEntries :
        /\ Cardinality(names) <= most
        /\ prefix \o a_txt \in names
              => names \subseteq {prefix \o a_txt, prefix \o a_mp4}}

NoCall == [video |-> <<>>, file |-> <<>>, exc |-> "not called", bound |-> FALSE,
           video_id |-> <<>>, pass |-> 0]

Init ==
    /\ posix \in BOOLEAN
    /\ group_settings \in PipelineTables
    /\ filename = <<>>
    /\ resolved = NotCalled
    /\ \E names \in StartFolders(MaxFiles) :
          disk = [q \in {<<upload_folder, n>> : n \in names} |-> File(q[2], 0)]
    /\ now = Debounce
    /\ pc = "scan"
    /\ queue = <<>>
    /\ passes = 0
    /\ last = NoCall
    /\ uploaded = <<>>
    /\ content = <<ListItem, Goto(Intro, <<"1">>)>>
    /\ playlist = <<Vid(1)>>
    /\ video_title = (Vid(1) :> Old)
    /\ log_file = <<>>
    /\ v2_file = NoFile
    /\ runs = <<>>

\* main without its handler of Exception: every exception ends the loop
main_unhandled(exc) == "exit"

\* lines 670-675, the handlers of main for an exception that leaves the
\* pass: a KeyboardInterrupt breaks the loop, an Exception is printed and
\* slept on
main_except(exc) == IF exc = "KeyboardInterrupt" THEN "exit" ELSE "except"

\* line 664: processor.get_pending_videos(); ok is whether the folder can
\* be listed
GetPendingVideos(ok) ==
    /\ pc = "scan"
    /\ passes < MaxPasses
    /\ passes' = passes + 1
    /\ IF ok
       THEN /\ queue' = get_pending_videos(disk, now)
            /\ pc' = IF queue' = <<>> THEN "sleep" ELSE "loop"
       ELSE /\ queue' = <<>>
            /\ pc' = main_except("OSError")
    /\ UNCHANGED <<config_vars, reconcile_vars, disk, now, last, uploaded, posix>>

\* line 665: process_video on the next file of the pass. An exception
\* leaves the for loop for the handlers of main.
ProcessVideo(env) ==
    /\ pc = "loop"
    /\ queue # <<>>
    /\ env \in IF EndsWith(Head(queue).original_name, <<".", "m", "d">>)
                THEN ManifestEnvs ELSE VideoEnvs
    /\ \E r \in {process_video(disk, Head(queue), env)} :
          /\ disk' = r.disk
          /\ uploaded' = IF r.upload = NoUpload THEN uploaded
                          ELSE Append(uploaded, disk[Head(queue).path])
          /\ playlist' = IF r.upload.added THEN Append(playlist, r.upload.video_id)
                          ELSE playlist
          /\ video_title' =
                 IF r.upload # NoUpload
                 THEN video_title @@ (r.upload.video_id :> r.upload.title)
                 ELSE IF r.recon # NoRun THEN apply_updates(video_title, r.recon.updates)
                 ELSE video_title
          /\ log_file' =
                 IF r.recon # NoRun /\ r.recon.wrote_log
                 THEN Append(log_file, r.recon.log_block)
                 ELSE log_file \o r.log_entry
          /\ v2_file' = IF r.recon # NoRun /\ r.recon.wrote_v2 THEN r.recon.v2_content
                         ELSE v2_file
          /\ runs' = IF r.recon # NoRun
                      THEN Append(runs, r.recon @@ [snapshot |->
                                      get_playlist_items(playlist, video_title)])
                      ELSE runs
          /\ last' = [video |-> Head(queue).original_name,
                       file |-> IF Head(queue).path \in DOMAIN disk
                                THEN disk[Head(queue).path] ELSE <<>>,
                       exc |-> r.exc, bound |-> r.bound,
                       video_id |-> r.upload.video_id, pass |-> passes]
          /\ IF r.exc = ""
             THEN /\ queue' = Tail(queue)
                  /\ pc' = IF Tail(queue) = <<>> THEN "sleep" ELSE "loop"
             ELSE /\ queue' = <<>>
                  /\ pc' = main_except(r.exc)
    /\ UNCHANGED <<config_vars, content, now, passes, posix>>

\* lines 668 and 675: time.sleep(scan_interval), after the for loop and in
\* the handler of an Exception
Sleep ==
    /\ pc \in {"sleep", "except"}
    /\ now' = now + scan_interval
    /\ pc' = "scan"
    /\ UNCHANGED <<config_vars, reconcile_vars, disk, queue, passes, last, uploaded, posix>>

\* Ctrl-C during a sleep: main leaves its loop
KeyboardInterrupt ==
    /\ pc \in {"sleep", "except"}
    /\ pc' = "exit"
    /\ UNCHANGED <<config_vars, reconcile_vars, disk, now, queue, passes, last, uploaded, posix>>

\* a producer finishes writing a new file into the upload folder, between
\* two passes: halfway through the sleep before this scan
Arrive(name) ==
    /\ pc = "scan"
    /\ passes < MaxPasses
    /\ <<upload_folder, name>> \notin DOMAIN disk
    /\ Cardinality(DOMAIN disk) < MaxFiles
    /\ disk' = disk @@ (<<upload_folder, name>> :>
                            File(name, now - (scan_interval \div 2)))
    /\ UNCHANGED <<config_vars, reconcile_vars, now, pc, queue, passes, last, uploaded, posix>>

Next ==
    \/ \E ok \in BOOLEAN : GetPendingVideos(ok)
    \/ \E env \in VideoEnvs \cup ManifestEnvs : ProcessVideo(env)
    \/ Sleep
    \/ KeyboardInterrupt
    \/ \E name \in Arrivals : Arrive(name)

Spec == Init /\ [][Next]_vars

----------------------------------------------------------------------------
(* The loop left running: main scans, processes and sleeps for ever, on   *)
(* the files the folder held at start. The upload of one video fails on   *)
(* every attempt; every other call of the environment succeeds.           *)

\* the video whose upload raises every time
AlwaysFails == {movie1}

FateOf(original_name) ==
    IF original_name \in AlwaysFails
    THEN Env("error", TRUE, TRUE, TRUE, <<"none", 0>>)
    ELSE Env("ok", TRUE, TRUE, TRUE, <<"none", 0>>)

\* line 664 of every iteration of `while True`; the passes are counted up
\* to MaxPasses
ScanForEver ==
    /\ pc = "scan"
    /\ passes' = IF passes < MaxPasses THEN passes + 1 ELSE passes
    /\ queue' = get_pending_videos(disk, now)
    /\ pc' = IF queue' = <<>> THEN "sleep" ELSE "loop"
    /\ UNCHANGED <<config_vars, reconcile_vars, disk, now, last, uploaded, posix>>

\* line 665, with the environment the file's name decides
ProcessFated ==
    /\ pc = "loop"
    /\ queue # <<>>
    /\ ProcessVideo(FateOf(Head(queue).original_name))

\* lines 668 and 675; the clock matters to a scan through the debounce
\* test only, and stands once every file of the folder has passed it
SleepForEver ==
    /\ pc \in {"sleep", "except"}
    /\ now' = IF \A q \in DOMAIN disk : now - disk[q].mtime >= Debounce
              THEN now ELSE now + scan_interval
    /\ pc' = "scan"
    /\ UNCHANGED <<config_vars, reconcile_vars, disk, queue, passes, last, uploaded, posix>>

NextForEver == ScanForEver \/ ProcessFated \/ SleepForEver

\* weak fairness of ProcessFated, by what it comes to: the step is enabled
\* exactly while pc = "loop", and each one shortens the queue or leaves the
\* for loop, so the steps are taken iff pc is not "loop" for ever
LoopGoesOn == []<>(pc # "loop")

\* main is one thread that never blocks but in time.sleep: each of its
\* steps is taken once it is the next one
SpecForEver ==
    /\ Init
    /\ [][NextForEver]_vars
    /\ WF_vars(ScanForEver) /\ WF_vars(SleepForEver)
    /\ LoopGoesOn

----------------------------------------------------------------------------
(* Claims about the file lifecycle *)

\* the latest process_video call raised an Exception
Failed == last.exc \notin {"", "not called", "KeyboardInterrupt"}

\* the pending and the uploading path of the file of the latest call
PendingPath == <<upload_folder, prefix \o last.video>>
UploadingPath == <<upload_folder, uploading_prefix \o last.video>>

\* the paths the file of the latest call is found under
PathsOfLast == {q \in DOMAIN disk : disk[q] = last.file}

\* C1: within one pass, when the pipeline of one pending file raises an
\* error, every remaining pending file of the pass is still processed in
\* that pass: after the failing call the for loop goes on with the files
\* that followed the failed one.
C1_FailureKeepsThePassGoing ==
    [][(pc = "loop" /\ last'.exc \notin {"", "KeyboardInterrupt"})
          => queue' = Tail(queue)]_vars

\* C2: when prepare_upload has renamed a pending file and a later step of
\* its pipeline raises an error, the file is back under exactly its
\* pending name (prefix + original name) with no file under its uploading
\* name, and the next scan that lists the folder selects it again.
C2_RestoredAndRetried ==
    /\ [](Failed /\ last.bound =>
            /\ PathsOfLast = {PendingPath}
            /\ UploadingPath \notin DOMAIN disk)
    /\ [][(pc = "scan" /\ pc' \in {"loop", "sleep"} /\ Failed /\ last.bound)
            => \E i \in 1..Len(queue') :
                  /\ queue'[i].original_name = last.video
                  /\ queue'[i].path = PendingPath]_vars

\* a pass whose scan selected the file that the pass before had renamed to
\* its uploading name and then failed on
C2_Witness ==
    /\ Failed /\ last.bound
    /\ passes = last.pass + 1
    /\ pc = "loop"
    /\ \E i \in 1..Len(queue) : queue[i].original_name = last.video
    /\ PathsOfLast = {PendingPath}

\* C3: a pending video prefix + N + ext that matches no group, uploaded
\* with id V, exists afterwards only under donePrefix + N + "_" + V + ext
\* in the upload folder (r_movie1.mp4 with abc123: d_movie1_abc123.mp4).
C3_DoneNameKeepsExtension ==
    (/\ last.exc = "" /\ last.video_id # <<>>
     /\ \A i \in 1..Len(group_settings) :
            ~Contains(last.video, regex_of(group_settings[i].config)))
    => PathsOfLast =
          {<<upload_folder,
             done_prefix \o splitext(last.video)[1] \o <<"_">> \o last.video_id
                \o splitext(last.video)[2]>>}

\* the step is a process_video call whose reconciliation run raised
ReconcileRaised ==
    Len(runs') = Len(runs) + 1 /\ runs'[Len(runs')].exc # ""

\* C11: reconciliation is a side effect after completion: a failure inside
\* it (listing the items, parsing, updating a video) does not roll the
\* manifest back: after the call the manifest is under a done name and not
\* under its pending name.
C11_ReconcileFailureKeepsDone ==
    [][(pc = "loop" /\ ReconcileRaised)
          => /\ Head(queue).path \notin DOMAIN disk'
             /\ \E q \in DOMAIN disk' :
                   /\ disk'[q] = disk[Head(queue).path]
                   /\ StartsWith(q[2], done_prefix)]_vars

\* the outcome `failed` is the outcome ok but for the video not being added
\* to the playlist
SameButNotAdded(ok, failed) == failed = [ok EXCEPT !.upload.added = FALSE]

\* C12: a failure of the playlist call after a successful upload never
\* fails the file: whatever the other calls do, process_video with a
\* failing add_to_playlist ends as it ends with a succeeding one (the same
\* video id returned, the same log line, the same rename to the done name
\* or the same exception), the playlist entry apart.
C12_PlaylistFailureIsSwallowed ==
    (pc = "loop" /\ queue # <<>>) =>
        \A l \in BOOLEAN, m \in BOOLEAN :
            SameButNotAdded(
                process_video(disk, Head(queue), Env("ok", TRUE, l, m, <<"none", 0>>)),
                process_video(disk, Head(queue), Env("ok", FALSE, l, m, <<"none", 0>>)))

\* a video of a group with an enabled playlist was uploaded, is not in the
\* playlist, has its line in the log file and is under its done name
C12_Witness ==
    /\ last.exc = "" /\ last.video_id # <<>>
    /\ playlist_enabled(get_group_config(BaseConfig, group_settings, last.video).val)
    /\ \A i \in 1..Len(playlist) : playlist[i] # last.video_id
    /\ \E i \in 1..Len(log_file) :
          log_file[i] = <<"-", " ">> \o youtube_link(splitext(last.video)[1], last.video_id)
    /\ \E q \in PathsOfLast : StartsWith(q[2], done_prefix)

\* C13: the scan loop never ends on an error: an exception raised during a
\* pass, by the scan or by a file's processing, is caught; the loop then
\* sleeps the scan interval and starts another pass; and main leaves the
\* loop only on the operator's interrupt.
C13_LoopSurvivesErrors ==
    [][/\ (pc' = "exit" /\ pc # "exit")
            => (pc \in {"sleep", "except"} \/ last'.exc = "KeyboardInterrupt")
       /\ (pc = "loop" /\ last'.exc \notin {"", "KeyboardInterrupt"})
            => pc' = "except"
       /\ (pc = "scan" /\ passes' # passes /\ pc' \notin {"loop", "sleep"})
            => pc' = "except"
       /\ (pc = "except" /\ pc' # "exit")
            => (pc' = "scan" /\ now' = now + scan_interval)]_vars

\* a file's processing raised, the loop has slept the interval and stands
\* before its next scan
C13_Witness ==
    /\ Failed
    /\ pc = "scan"
    /\ last.pass = passes
    /\ now = Debounce + passes * scan_interval

\* C14: processing is sequential and ordered: the files of a pass wait in
\* ascending order of their names, each call of process_video takes the
\* first of them and on success leaves the rest in their order, and between
\* two calls of a pass the file of the call before is no longer under an
\* uploading name.
C14_SequentialInNameOrder ==
    /\ [](/\ \A i \in 1..Len(queue) : \A j \in (i + 1)..Len(queue) :
                StrLess(queue[i].path[2], queue[j].path[2])
          /\ pc = "loop" =>
                \A q \in PathsOfLast : ~StartsWith(q[2], uploading_prefix))
    /\ [][pc = "loop" =>
            /\ last'.video = Head(queue).original_name
            /\ last'.exc = "" => queue' = Tail(queue)]_vars

\* the first file of a pass of two is done and the second, later in name
\* order, is the next
C14_Witness ==
    /\ pc = "loop"
    /\ Len(queue) = 1
    /\ last.pass = passes /\ last.exc = ""
    /\ StrLess(prefix \o last.video, queue[1].path[2])
    /\ \E q \in PathsOfLast : StartsWith(q[2], done_prefix)

\* C15: prepare_upload fails, and changes no file, when the pending source
\* is gone or when a file is already under the uploading name: the file
\* under the uploading name is never replaced.
C15_CollisionIsAnError ==
    (/\ pc = "loop" /\ queue # <<>>
     /\ \/ Head(queue).path \notin DOMAIN disk
        \/ <<upload_folder, uploading_prefix \o Head(queue).original_name>>
              \in DOMAIN disk)
    => /\ prepare_upload(disk, Head(queue)).exc # ""
       /\ prepare_upload(disk, Head(queue)).disk = disk

\* C16: every title submitted, by an upload's request or by update_video, is
\* at most TitleLimit characters long and is a prefix of the full title, and
\* when the full title is longer than that, the description of the same
\* request contains the full title
C16_TitleTruncatedAndKept ==
    resolved # NotCalled =>
        /\ Len(resolved.val.title) <= TitleLimit
        /\ resolved.val.title = TakeFirst(filename, Len(resolved.val.title))
        /\ Len(filename) > TitleLimit
              => Contains(resolved.val.description, filename)

C16_Witness ==
    /\ resolved # NotCalled
    /\ Len(filename) > TitleLimit
    /\ Len(resolved.val.title) = TitleLimit
    /\ resolved.val.title # filename

\* the files in the Uploading state between two steps of the loop: each was
\* left there, by a crash or by a failed restore
LeftUploading == {q \in DOMAIN disk : StartsWith(q[2], uploading_prefix)}

\* C17: a file left in the Uploading state is never recovered: no scan
\* selects it, and no step renames, overwrites, uploads or deletes it,
\* whatever files appear as pending
C17_UploadingIsLeftAlone ==
    /\ [](\A i \in 1..Len(queue) : queue[i].path \notin LeftUploading)
    /\ [][\A q \in LeftUploading : q \in DOMAIN disk' /\ disk'[q] = disk[q]]_vars

\* the entries whose pattern is there, not empty, and a substring of the
\* filename
NonEmptyMatching ==
    {i \in 1..Len(group_settings) :
        /\ Has(group_settings[i].config, "regex")
        /\ Get(group_settings[i].config, "regex").str # <<>>
        /\ Contains(filename, Get(group_settings[i].config, "regex").str)}

\* C18: get_group_config selects a group only when its pattern is a
\* non-empty substring of the filename: an entry whose pattern is empty or
\* missing is never selected, and when no entry matches so, the result is
\* the base configuration, with no code in it.
C18_OnlyNonEmptyPatternsSelect ==
    resolved.exc = "" =>
        /\ Has(resolved.val, "code")
              => \E i \in NonEmptyMatching :
                     Get(resolved.val, "code") = Str(group_settings[i].code)
        /\ NonEmptyMatching = {} => resolved.val = BaseConfig

\* the links of the manifest
References == {i \in 1..Len(content) : content[i].kind # "text"}

\* a reference resolves in a run when it is a direct link, which names its
\* video, or a positional link whose offset is in the run's snapshot
Resolves(r, i) ==
    \/ content[i].kind = "direct"
    \/ content[i].kind = "goto" /\ InRange(i, Len(r.snapshot))

ResolvedId(r, i) ==
    IF content[i].kind = "direct" THEN content[i].arg
    ELSE r.snapshot[OffsetOf(i, Len(r.snapshot)) + 1].videoId

\* the run came to the reference: it completed, or it did something there
Reached(r, i) == r.exc = "" \/ EventsAt(r, i) # {}

\* the videos for which the iteration on chunk i did `what`
Did(r, i, what) == {e.video_id : e \in {e \in EventsAt(r, i) : e.did = what}}

\* C19: for every resolved reference whose video is in the snapshot, a
\* TitleChange is recorded and update_video is called exactly when the
\* manifest's title differs verbatim from that video's title in the
\* snapshot; the call is for the video the reference resolves to, with the
\* reference's title, and the TitleChange holds that video id, the snapshot
\* title and the manifest title. A reference whose video is not in the
\* snapshot causes no change and no update.
C19_ChangeExactlyOnMismatch ==
    \A r \in Runs : \A i \in References :
        (Resolves(r, i) /\ Reached(r, i)) =>
            LET v == ResolvedId(r, i)
                c == content[i]
            IN  IF v \in SnapshotIds(r) /\ first_item(r.snapshot, v).title # c.title
                THEN /\ Did(r, i, "change") = {v}
                     /\ \E k \in 1..Len(r.changes) :
                           r.changes[k] =
                               [video_id |-> v,
                                old_title |-> first_item(r.snapshot, v).title,
                                new_title |-> c.title]
                     /\ \/ /\ Did(r, i, "update") = {v}
                           /\ \E k \in 1..Len(r.updates) :
                                 r.updates[k] =
                                     [video_id |-> v, title |-> submitted_title(c.title)]
                        \/ Did(r, i, "raise") # {}
                ELSE /\ Did(r, i, "change") = {}
                     /\ Did(r, i, "update") = {}

\* the entries a scan at time t is to return: in the upload folder, named
\* with the pending prefix and an accepted extension, and last modified at
\* least Debounce seconds before t
Due(t) ==
    {q \in DOMAIN disk :
        /\ q[1] = upload_folder
        /\ StartsWith(q[2], prefix)
        /\ \E ext \in {<<".", "m", "p", "4">>, <<".", "m", "d">>} : EndsWith(q[2], ext)
        /\ t - disk[q].mtime >= Debounce}

\* C20: a scan returns exactly the entries of the upload folder whose name
\* starts with the prefix and ends in .mp4 or .md and whose last
\* modification is at least Debounce seconds before the scan; an entry
\* modified later than that is left out of the pass, and the pass whose
\* time is Debounce seconds past its modification returns it.
C20_ScanReturnsTheSettledFiles ==
    [][(pc = "scan" /\ pc' \in {"loop", "sleep"})
          => {queue'[i].path : i \in 1..Len(queue')} = Due(now)]_vars

\* the second pass returns a file that was written ten seconds before the
\* first pass, which left it out
C20_Witness ==
    /\ passes = 2
    /\ pc = "loop"
    /\ \E i \in 1..Len(queue) :
          /\ queue[i].path \in DOMAIN disk
          /\ disk[queue[i].path].mtime > 0
          /\ now - disk[queue[i].path].mtime >= Debounce
          /\ now - scan_interval - disk[queue[i].path].mtime < Debounce

\* the file that was dropped as prefix + name is pending, is done
IsPending(name) ==
    /\ <<upload_folder, prefix \o name>> \in DOMAIN disk
    /\ disk[<<upload_folder, prefix \o name>>].origin = prefix \o name

IsDone(name) ==
    \E q \in DOMAIN disk :
        disk[q].origin = prefix \o name /\ StartsWith(q[2], done_prefix)

\* the file's own pipeline succeeds when it is run: its calls succeed and
\* its rename to the uploading name meets no file where rename would raise
WouldSucceed(name) ==
    /\ name \notin AlwaysFails
    /\ posix \/ <<upload_folder, uploading_prefix \o name>> \notin DOMAIN disk

\* C21: under repeated passes every pending file whose own pipeline would
\* succeed eventually reaches Done, also when a pending file that sorts
\* before it fails on every attempt.
C21_EveryGoodFileGetsDone ==
    \A name \in {movie1, a_mp4, p1_md} :
        (IsPending(name) /\ WouldSucceed(name)) ~> IsDone(name)

\* C22: once the upload of a file has returned a video id, the file is
\* never back under its pending name and is never uploaded again, whatever
\* happens to the log write, the after-upload directory and the Done
\* rename that follow.
C22_UploadedOnceAndNeverPending ==
    \A k \in 1..Len(uploaded) :
        /\ \A q \in DOMAIN disk :
              disk[q] = uploaded[k] => ~StartsWith(q[2], prefix)
        /\ \A j \in 1..(k - 1) : uploaded[j] # uploaded[k]

\* the name is one of a file's lifecycle names
LifecycleName(name) ==
    \E pre \in {prefix, uploading_prefix, done_prefix} : StartsWith(name, pre)

\* C23: no file is lost: whatever the passes did, every file is under
\* exactly one path, a lifecycle name, and no step (the rename to the
\* uploading name, to the done name, safe_rename of a manifest, the
\* restore) deletes a file or puts another file's content in its place.
C23_NoFileIsLost ==
    /\ [](\A p \in DOMAIN disk :
            /\ LifecycleName(p[2])
            /\ \A q \in DOMAIN disk : disk[p] = disk[q] => p = q)
    /\ [][\A q \in DOMAIN disk : \E p \in DOMAIN disk' : disk'[p] = disk[q]]_vars

\* the configuration get_group_config selects for a name
SelectedFor(name) == get_group_config(BaseConfig, group_settings, name).val

\* the step is _handle_markdown on the manifest at the head of the queue
HandlesManifest ==
    /\ pc = "loop"
    /\ EndsWith(Head(queue).original_name, <<".", "m", "d">>)
    /\ last'.bound

\* C24: the group a manifest is handled with is the one get_group_config
\* selects for its name (the first entry whose pattern is in the name): the
\* manifest is reconciled exactly when that group has an enabled playlist,
\* and the manifest ends in that group's after-upload directory.
C24_ManifestHandledWithSelectedGroup ==
    [][HandlesManifest =>
          /\ Len(runs') = Len(runs) + 1
                <=> playlist_enabled(SelectedFor(Head(queue).original_name))
          /\ last'.exc = "" =>
                \E q \in DOMAIN disk' :
                    /\ disk'[q] = disk[Head(queue).path]
                    /\ q[1] = after_upload_dir(SelectedFor(Head(queue).original_name))]_vars

====
